---- MODULE Spec2Model ----
(***************************************************************************)
(* The card enrichment pipeline of scripts/enrichCards.ts: loading the     *)
(* translation hints, the per-card translation resolver (hint, existing    *)
(* card translation, literal fallback, DeepL), the in-run translation      *)
(* cache and its merge, and the writing of the output files.               *)
(*                                                                         *)
(* JavaScript values are tagged records: NULL, Num(n), Str(s).  A string   *)
(* is a sequence of one-character strings, so that trimming, joining and  *)
(* number formatting are computed and not assumed.                         *)
(*                                                                         *)
(* The subtitle parser of scripts/parseSubs.ts and the pure functions of   *)
(* both scripts are applied on their own to bounded inputs: arg holds the  *)
(* input and result what the function returned.  The legacy enricher      *)
(* scripts/enrichCards.mjs is run on the input of a finished run, and the  *)
(* loading of the hints on the cache a run has written.                    *)
(***************************************************************************)
EXTENDS Integers, Sequences, FiniteSets

VARIABLES pc, options, hintFile, dictionary, cardCount, rawCards, translations,
          enrichedCards, nextCard, pending, resolution, written, arg, result

vars == <<pc, options, hintFile, dictionary, cardCount, rawCards, translations,
          enrichedCards, nextCard, pending, resolution, written, arg, result>>

-----------------------------------------------------------------------------
(* JavaScript values *)

NULL == [null |-> TRUE]
Num(n) == [num |-> n]
Str(s) == [str |-> s]
IsNull(v) == DOMAIN v = {"null"}
IsNum(v) == DOMAIN v = {"num"}
IsStr(v) == DOMAIN v = {"str"}

\* value || ''  for a string-or-null field
OrEmpty(v) == IF IsStr(v) THEN v.str ELSE <<>>

Whitespace == {" ", "\t", "\n", "\r"}

RECURSIVE TrimStart(_)
TrimStart(s) ==
  IF s = <<>> THEN <<>>
  ELSE IF Head(s) \in Whitespace THEN TrimStart(Tail(s)) ELSE s

RECURSIVE TrimEnd(_)
TrimEnd(s) ==
  IF s = <<>> THEN <<>>
  ELSE IF s[Len(s)] \in Whitespace THEN TrimEnd(SubSeq(s, 1, Len(s) - 1)) ELSE s

\* String.prototype.trim
Trim(s) == TrimEnd(TrimStart(s))

DigitChars == <<"0", "1", "2", "3", "4", "5", "6", "7", "8", "9">>

RECURSIVE NatToString(_)
NatToString(n) ==
  IF n < 10 THEN <<DigitChars[n + 1]>>
  ELSE NatToString(n \div 10) \o <<DigitChars[(n % 10) + 1]>>

\* String(value) for a number, a string or null
StringOf(v) ==
  IF IsNum(v) THEN (IF v.num < 0 THEN <<"-">> \o NatToString(-v.num) ELSE NatToString(v.num))
  ELSE IF IsStr(v) THEN v.str
  ELSE <<"n", "u", "l", "l">>

DigitValue(c) == CHOOSE d \in 0..9 : DigitChars[d + 1] = c
IsDigit(c) == \E d \in 1..10 : DigitChars[d] = c

RECURSIVE ParseDigits(_, _)
ParseDigits(s, acc) ==
  IF s = <<>> \/ ~IsDigit(Head(s)) THEN acc
  ELSE ParseDigits(Tail(s), acc * 10 + DigitValue(Head(s)))

NaN == [nan |-> TRUE]

\* Number.parseInt(text, 10): leading whitespace, an optional sign, then the
\* longest run of digits; NaN when there is no digit.
ParseInt(text) ==
  LET t == TrimStart(text)
      neg == t # <<>> /\ Head(t) = "-"
      body == IF t # <<>> /\ Head(t) \in {"-", "+"} THEN Tail(t) ELSE t
  IN IF body = <<>> \/ ~IsDigit(Head(body)) THEN NaN
     ELSE Num(IF neg THEN -ParseDigits(body, 0) ELSE ParseDigits(body, 0))

normalizeNumeric(value) ==
  IF IsNum(value) THEN value
  ELSE LET parsed == ParseInt(StringOf(value))
       IN IF parsed = NaN THEN Str(StringOf(value)) ELSE parsed

\* A raw entry is a record [id, subtitleId, sentence, translation] of
\* JavaScript values; the result is NULL or a TranslationEntry whose
\* translation is a plain non-empty trimmed string.
sanitizeTranslationEntry(entry) ==
  IF ~IsStr(entry.translation) THEN NULL
  ELSE IF Trim(entry.translation.str) = <<>> THEN NULL
  ELSE [id |-> IF IsNull(entry.id) \/ entry.id = Str(<<>>) THEN NULL
               ELSE normalizeNumeric(entry.id),
        subtitleId |-> IF IsNull(entry.subtitleId) \/ entry.subtitleId = Str(<<>>) THEN NULL
                       ELSE normalizeNumeric(entry.subtitleId),
        sentence |-> IF IsStr(entry.sentence) /\ Trim(entry.sentence.str) # <<>>
                     THEN Str(Trim(entry.sentence.str)) ELSE NULL,
        translation |-> Trim(entry.translation.str)]

-----------------------------------------------------------------------------
(* Map<string, string> as a function from keys to values *)

EmptyMap == [k \in {} |-> <<>>]
MapHas(m, k) == k \in DOMAIN m
MapSet(m, k, v) == [x \in DOMAIN m \cup {k} |-> IF x = k THEN v ELSE m[x]]

-----------------------------------------------------------------------------
(* Translation hints *)

EmptyState(path) ==
  [byId |-> EmptyMap, bySubtitleId |-> EmptyMap, bySentence |-> EmptyMap,
   addedEntries |-> <<>>, initialEntries |-> <<>>, sourcePath |-> path]

\* registerEntry of loadTranslationHints
registerEntry(st, entryLike) ==
  LET safeEntry == sanitizeTranslationEntry(entryLike)
  IN IF IsNull(safeEntry) THEN st
     ELSE [st EXCEPT
       !.byId = IF ~IsNull(safeEntry.id)
                THEN MapSet(@, StringOf(safeEntry.id), safeEntry.translation) ELSE @,
       !.bySubtitleId = IF ~IsNull(safeEntry.subtitleId)
                        THEN MapSet(@, StringOf(safeEntry.subtitleId), safeEntry.translation)
                        ELSE @,
       !.bySentence = IF IsStr(safeEntry.sentence)
                      THEN MapSet(@, safeEntry.sentence.str, safeEntry.translation) ELSE @,
       !.initialEntries = Append(@, safeEntry)]

RECURSIVE registerAll(_, _)
registerAll(st, entries) ==
  IF entries = <<>> THEN st
  ELSE registerAll(registerEntry(st, Head(entries)), Tail(entries))

EntryFields == {"id", "subtitleId", "sentence", "translation"}

\* { id: key, ...value } for an object value, { id: key, translation: value }
\* for a string value; any other value is skipped.
FromObjectPair(pair) ==
  LET key == pair[1]
      value == pair[2]
  IN IF IsStr(value)
     THEN <<[id |-> Str(key), subtitleId |-> NULL, sentence |-> NULL, translation |-> value]>>
     ELSE IF IsNull(value) \/ IsNum(value) THEN <<>>
     ELSE <<[f \in EntryFields |->
               IF f \in DOMAIN value.obj THEN value.obj[f]
               ELSE IF f = "id" THEN Str(key) ELSE NULL]>>

RECURSIVE FromObject(_)
FromObject(pairs) ==
  IF pairs = <<>> THEN <<>> ELSE FromObjectPair(Head(pairs)) \o FromObject(Tail(pairs))

\* path is NULL or Str(p); file is the content found at the path:
\* [missing |-> TRUE], [array |-> entries] or [object |-> <<key, value>> pairs].
loadTranslationHints(path, file) ==
  IF IsNull(path) THEN EmptyState(NULL)
  ELSE IF "missing" \in DOMAIN file THEN EmptyState(path)
  ELSE IF "array" \in DOMAIN file THEN registerAll(EmptyState(path), file.array)
  ELSE registerAll(EmptyState(path), FromObject(file.object))

\* Mutant: the subtitleId is looked up in the id index.
pickTranslation_subtitleInIds(card, tr) ==
  IF MapHas(tr.byId, StringOf(card.id)) THEN Str(tr.byId[StringOf(card.id)])
  ELSE IF ~IsNull(card.subtitleId) /\ MapHas(tr.byId, StringOf(card.subtitleId))
       THEN Str(tr.byId[StringOf(card.subtitleId)])
  ELSE LET normalizedSentence == Trim(OrEmpty(card.sentence))
       IN IF normalizedSentence # <<>> /\ MapHas(tr.bySentence, normalizedSentence)
          THEN Str(tr.bySentence[normalizedSentence])
          ELSE NULL

\* Mutant: only the id index is consulted.
pickTranslation_idOnly(card, tr) ==
  IF MapHas(tr.byId, StringOf(card.id)) THEN Str(tr.byId[StringOf(card.id)])
  ELSE NULL

\* Mutant: the subtitleId index is consulted before the id index.
pickTranslation_subtitleFirst(card, tr) ==
  IF ~IsNull(card.subtitleId) /\ MapHas(tr.bySubtitleId, StringOf(card.subtitleId))
  THEN Str(tr.bySubtitleId[StringOf(card.subtitleId)])
  ELSE IF MapHas(tr.byId, StringOf(card.id)) THEN Str(tr.byId[StringOf(card.id)])
  ELSE LET normalizedSentence == Trim(OrEmpty(card.sentence))
       IN IF normalizedSentence # <<>> /\ MapHas(tr.bySentence, normalizedSentence)
          THEN Str(tr.bySentence[normalizedSentence])
          ELSE NULL

pickTranslation(card, tr) ==
  IF MapHas(tr.byId, StringOf(card.id)) THEN Str(tr.byId[StringOf(card.id)])
  ELSE IF ~IsNull(card.subtitleId) /\ MapHas(tr.bySubtitleId, StringOf(card.subtitleId))
       THEN Str(tr.bySubtitleId[StringOf(card.subtitleId)])
  ELSE LET normalizedSentence == Trim(OrEmpty(card.sentence))
       IN IF normalizedSentence # <<>> /\ MapHas(tr.bySentence, normalizedSentence)
          THEN Str(tr.bySentence[normalizedSentence])
          ELSE NULL

\* Mutant: the generated translation is not registered under the sentence.
registerGeneratedTranslation_noSentence(tr, card, translation) ==
  LET normalizedSentence == Trim(OrEmpty(card.sentence))
      entry == sanitizeTranslationEntry(
                 [id |-> card.id, subtitleId |-> card.subtitleId,
                  sentence |-> IF normalizedSentence = <<>> THEN NULL
                               ELSE Str(normalizedSentence),
                  translation |-> Str(translation)])
  IN [tr EXCEPT
       !.byId = IF ~IsNull(card.id) THEN MapSet(@, StringOf(card.id), translation) ELSE @,
       !.bySubtitleId = IF ~IsNull(card.subtitleId)
                        THEN MapSet(@, StringOf(card.subtitleId), translation) ELSE @,
       !.addedEntries = IF IsNull(entry) THEN @ ELSE Append(@, entry)]

registerGeneratedTranslation(tr, card, translation) ==
  LET normalizedSentence == Trim(OrEmpty(card.sentence))
      entry == sanitizeTranslationEntry(
                 [id |-> card.id, subtitleId |-> card.subtitleId,
                  sentence |-> IF normalizedSentence = <<>> THEN NULL
                               ELSE Str(normalizedSentence),
                  translation |-> Str(translation)])
  IN [tr EXCEPT
       !.byId = IF ~IsNull(card.id) THEN MapSet(@, StringOf(card.id), translation) ELSE @,
       !.bySubtitleId = IF ~IsNull(card.subtitleId)
                        THEN MapSet(@, StringOf(card.subtitleId), translation) ELSE @,
       !.bySentence = IF normalizedSentence # <<>>
                      THEN MapSet(@, normalizedSentence, translation) ELSE @,
       !.addedEntries = IF IsNull(entry) THEN @ ELSE Append(@, entry)]

-----------------------------------------------------------------------------
(* The merge of the persisted cache *)

\* Mutant: the id is preferred to the subtitleId.
entryKey_idFirst(entry, anon) ==
  IF ~IsNull(entry.id) THEN <<"id", StringOf(entry.id)>>
  ELSE IF ~IsNull(entry.subtitleId) THEN <<"subtitleId", StringOf(entry.subtitleId)>>
  ELSE IF IsStr(entry.sentence) /\ entry.sentence.str # <<>>
       THEN <<"sentence", entry.sentence.str>>
  ELSE <<"anon", NatToString(anon)>>

\* The key of put(); anon is the value of anonCounter.
entryKey(entry, anon) ==
  IF ~IsNull(entry.subtitleId) THEN <<"subtitleId", StringOf(entry.subtitleId)>>
  ELSE IF ~IsNull(entry.id) THEN <<"id", StringOf(entry.id)>>
  ELSE IF IsStr(entry.sentence) /\ entry.sentence.str # <<>>
       THEN <<"sentence", entry.sentence.str>>
  ELSE <<"anon", NatToString(anon)>>

IsAnon(entry) ==
  IsNull(entry.subtitleId) /\ IsNull(entry.id)
  /\ ~(IsStr(entry.sentence) /\ entry.sentence.str # <<>>)

\* An insertion-ordered Map as a sequence of <<key, value>>: set() of a key
\* already present replaces the value in place.
OrderedSet(m, k, v) ==
  IF \E j \in 1..Len(m) : m[j][1] = k
  THEN [j \in 1..Len(m) |-> IF m[j][1] = k THEN <<k, v>> ELSE m[j]]
  ELSE Append(m, <<k, v>>)

RECURSIVE putAll(_, _, _)
putAll(m, anonCounter, entries) ==
  IF entries = <<>> THEN m
  ELSE LET entry == Head(entries)
       IN putAll(OrderedSet(m, entryKey(entry, anonCounter), entry),
                 IF IsAnon(entry) THEN anonCounter + 1 ELSE anonCounter,
                 Tail(entries))

mergeTranslationEntries(existing, additions) ==
  LET map == putAll(<<>>, 0, existing \o additions)
  IN [j \in 1..Len(map) |-> map[j][2]]

-----------------------------------------------------------------------------
(* Tokens and the literal translation *)

\* The morphological analyser, as far as the resolver reads its result: one
\* token per character, with no base form ("*").
Tokenize(text) ==
  [k \in 1..Len(text) |-> [surface_form |-> <<text[k]>>, basic_form |-> <<"*">>]]

normalizeToken(token, dict) ==
  LET lemma == IF token.basic_form # <<>> /\ token.basic_form # <<"*">>
               THEN token.basic_form ELSE token.surface_form
  IN [surface |-> token.surface_form,
      lemma |-> lemma,
      meanings |-> IF lemma \in DOMAIN dict THEN dict[lemma].meanings ELSE NULL]

RECURSIVE FilterTokens(_)
FilterTokens(tokens) ==
  IF tokens = <<>> THEN <<>>
  ELSE IF Trim(Head(tokens).surface) # <<>>
       THEN <<Head(tokens)>> \o FilterTokens(Tail(tokens))
       ELSE FilterTokens(Tail(tokens))

Breakdown(card, dict) ==
  LET tokens == Tokenize(OrEmpty(card.sentence))
  IN FilterTokens([k \in 1..Len(tokens) |-> normalizeToken(tokens[k], dict)])

\* Mutant: the first gloss is taken even when it is the empty string.
Gloss_anyFirst(token) ==
  IF ~IsNull(token.meanings) /\ Len(token.meanings.list) > 0
  THEN token.meanings.list[1] ELSE token.surface

\* meanings?.[0] ? meanings[0] : surface
Gloss(token) ==
  IF ~IsNull(token.meanings) /\ Len(token.meanings.list) > 0
     /\ token.meanings.list[1] # <<>>
  THEN token.meanings.list[1] ELSE token.surface

RECURSIVE Join(_, _)
Join(parts, sep) ==
  IF parts = <<>> THEN <<>>
  ELSE IF Len(parts) = 1 THEN parts[1]
  ELSE parts[1] \o sep \o Join(Tail(parts), sep)

buildLiteralTranslation(tokens) ==
  IF tokens = <<>> THEN <<>>
  ELSE Join([k \in 1..Len(tokens) |-> Gloss(tokens[k])], <<" ">>)

-----------------------------------------------------------------------------
(* The tabular output *)

\* replace(/\t/g, ' ')
ReplaceTabs(s) == [k \in 1..Len(s) |-> IF s[k] = "\t" THEN " " ELSE s[k]]

\* replace(/\r?\n/g, ' '): a line feed, with the carriage return before it if
\* there is one, becomes one space.
ReplaceNewlines(s) ==
  LET kept == SelectSeq([k \in 1..Len(s) |-> k],
                        LAMBDA k : ~(s[k] = "\r" /\ k < Len(s) /\ s[k + 1] = "\n"))
  IN [i \in 1..Len(kept) |-> IF s[kept[i]] = "\n" THEN " " ELSE s[kept[i]]]

\* Mutant: the result is not trimmed.
clean_noTrim(value) == ReplaceNewlines(ReplaceTabs(OrEmpty(value)))

\* (value ?? '').replace(/\t/g, ' ').replace(/\r?\n/g, ' ').trim()
clean(value) == Trim(ReplaceNewlines(ReplaceTabs(OrEmpty(value))))

cardsToTsv(cards) ==
  Join([k \in 1..Len(cards) |->
          clean(cards[k].sentence) \o <<"\t">> \o clean(cards[k].translation)],
       <<"\n">>)

-----------------------------------------------------------------------------
(* Command line *)

\* The command line after the input path, as the options it carries:
\* translations and translationsOut are NULL or Str(path), the others say
\* whether the flag is present.
parseOptions(cli) ==
  [inputPath |-> "cards.json",
   translationPath |-> cli.translations,
   translationSavePath |-> IF IsNull(cli.translationsOut) /\ ~IsNull(cli.translations)
                           THEN cli.translations ELSE cli.translationsOut,
   outputJsonPath |-> "cards.json",
   tsvPath |-> "cards.tsv",
   writeTsv |-> ~cli.noTsv,
   autoTranslate |-> cli.autoTranslate,
   autoTranslateReplace |-> ~cli.autoTranslateKeep]

NoArgs ==
  [translations |-> NULL, translationsOut |-> NULL, noTsv |-> FALSE,
   autoTranslate |-> FALSE, autoTranslateKeep |-> FALSE]

-----------------------------------------------------------------------------
(* The resolver: enrichCard up to the call of the translator *)

Truthy(v) == IsStr(v) /\ v.str # <<>>

\* Mutant: the card's own translation is taken whatever the options are.
useCardTranslation_always(hint, cardTranslation, translatorEnabled, autoTranslateReplace) ==
  ~Truthy(hint) /\ cardTranslation # <<>>

\* Line 216: the card's own translation is taken.
useCardTranslation(hint, cardTranslation, translatorEnabled, autoTranslateReplace) ==
  ~Truthy(hint) /\ cardTranslation # <<>>
  /\ (~translatorEnabled \/ ~autoTranslateReplace)

\* Mutant: replacing does not spare a translation that came from a hint.
shouldAutoTranslate_overHint(translatorEnabled, translation, autoTranslateReplace, translationSource) ==
  translatorEnabled /\ (translation = <<>> \/ autoTranslateReplace)

\* Mutant: a translation that is no hint is replaced also when keeping.
shouldAutoTranslate_alwaysReplace(translatorEnabled, translation, autoTranslateReplace, translationSource) ==
  translatorEnabled /\ (translation = <<>> \/ translationSource # "hint")

\* Lines 226-228.
shouldAutoTranslate(translatorEnabled, translation, autoTranslateReplace, translationSource) ==
  translatorEnabled
  /\ (translation = <<>> \/ (autoTranslateReplace /\ translationSource # "hint"))

\* The local variables of enrichCard when it reaches line 230: the hint
\* found, the translation and its source after tiers 1-5, and whether the
\* translator is called.
Resolve(card, dict, tr, opts) ==
  LET breakdown == Breakdown(card, dict)
      translatorEnabled == opts.autoTranslate
      cardTranslation == Trim(OrEmpty(card.translation))
      hint == pickTranslation(card, tr)
      useCard == useCardTranslation(hint, cardTranslation, translatorEnabled,
                                    opts.autoTranslateReplace)
      translation == IF Truthy(hint) THEN hint.str
                     ELSE IF useCard THEN cardTranslation
                     ELSE buildLiteralTranslation(breakdown)
      translationSource == IF Truthy(hint) THEN "hint"
                           ELSE IF useCard THEN "card" ELSE "literal"
  IN [card |-> card,
      breakdown |-> breakdown,
      hint |-> hint,
      translation |-> translation,
      translationSource |-> translationSource,
      shouldAutoTranslate |->
        shouldAutoTranslate(translatorEnabled, translation,
                            opts.autoTranslateReplace, translationSource)]

\* Mutant: the enriched card carries the trimmed sentence.
Enriched_trimmed(card, translation, breakdown) ==
  [f \in DOMAIN card \cup {"translation", "tokens"} |->
     IF f = "translation" THEN Str(translation)
     ELSE IF f = "tokens" THEN breakdown
     ELSE IF f = "sentence" THEN Str(Trim(OrEmpty(card.sentence)))
     ELSE card[f]]

\* { ...card, translation: translation ?? '', tokens: breakdown }
Enriched(card, translation, breakdown) ==
  [f \in DOMAIN card \cup {"translation", "tokens"} |->
     IF f = "translation" THEN Str(translation)
     ELSE IF f = "tokens" THEN breakdown
     ELSE card[f]]

\* Mutant: if (generated !== null)
Accepted_nonNull(generated) == ~IsNull(generated)

\* Line 232: if (generated)
Accepted(generated) == Truthy(generated)

\* Mutant: the request is made outside the try block, so a rejected request
\* rejects the call.
TranslatorResult_noCatch(response) ==
  IF "error" \in DOMAIN response THEN [throws |-> TRUE]
  ELSE IF IsNull(response.text) THEN NULL
  ELSE Str(Trim(response.text.str))

\* What the function made by createDeepLTranslator returns for a response
\* of the service: [error |-> TRUE] for a rejected request, [text |-> s] for
\* a result and [text |-> NULL] for a result without text.  A call that
\* rejects instead of returning is [throws |-> TRUE].
TranslatorResult(response) ==
  IF "error" \in DOMAIN response THEN NULL
  ELSE IF IsNull(response.text) THEN NULL
  ELSE Str(Trim(response.text.str))

-----------------------------------------------------------------------------
(* Inputs *)

MaxCards == 2

CardIds == {Num(1), Num(2)}
SubtitleIds == {NULL, Num(7)}
Sentences == {Str(<<" ">>), Str(<<" ", "a">>), Str(<<"b">>)}
CardTranslations == {NULL, Str(<<" ", "t">>)}

\* The cards with sentence "b" have no translation of their own.
Cards ==
  { card \in [id : CardIds, subtitleId : SubtitleIds, sentence : Sentences,
              translation : CardTranslations, romaji : {Str(<<"r">>)}] :
      card.sentence = Str(<<"b">>) => IsNull(card.translation) }

RawEntry(id, subtitleId, sentence, translation) ==
  [id |-> id, subtitleId |-> subtitleId, sentence |-> sentence,
   translation |-> translation]

\* What is read when there is no file at the path, or no path.
NoHintFile == [missing |-> TRUE]

\* { "1": "I ", "k": { subtitleId: 7, translation: "S" } } and
\* [ { sentence: "a ", translation: "Z" } ].
HintFiles ==
  { [object |-> << <<<<"1">>, Str(<<"I", " ">>)>>,
                   <<<<"k">>, [obj |-> [subtitleId |-> Num(7),
                                        translation |-> Str(<<"S">>)]]>> >>],
    [array |-> << RawEntry(NULL, NULL, Str(<<"a", " ">>), Str(<<"Z">>)) >>] }

Dictionaries ==
  { [k \in {<<"a">>} |-> [lemma |-> <<"a">>, meanings |-> [list |-> <<<<"G">>>>]]] }

\* A sample of the command lines: --translations-out and --no-tsv are given
\* together, without --translations, or not at all.
CommandLines ==
  { cli \in [translations : {NULL, Str("hints.json")},
             translationsOut : {NULL, Str("cache.json")},
             noTsv : BOOLEAN,
             autoTranslate : BOOLEAN,
             autoTranslateKeep : BOOLEAN] :
      /\ IsNull(cli.translations) \/ IsNull(cli.translationsOut)
      /\ cli.noTsv <=> ~IsNull(cli.translationsOut) }

ApiResponses ==
  { [error |-> TRUE], [text |-> Str(<<" ", "g">>)], [text |-> Str(<<" ">>)] }

-----------------------------------------------------------------------------
(* main *)

Init ==
  /\ pc = "start"
  /\ options = parseOptions(NoArgs)
  /\ hintFile = NoHintFile
  /\ dictionary = [k \in {} |-> NULL]
  /\ cardCount = 0
  /\ rawCards = <<>>
  /\ translations = EmptyState(NULL)
  /\ enrichedCards = <<>>
  /\ nextCard = 1
  /\ pending = {}
  /\ resolution = <<>>
  /\ written = <<>>
  /\ arg = NULL
  /\ result = NULL

\* process.exit(1) from main().catch: the memory of the process is gone, the
\* files written so far stay.
Exit(state) ==
  /\ pc' = state
  /\ options' = parseOptions(NoArgs)
  /\ hintFile' = NoHintFile
  /\ dictionary' = [k \in {} |-> NULL]
  /\ cardCount' = 0
  /\ rawCards' = <<>>
  /\ translations' = EmptyState(NULL)
  /\ enrichedCards' = <<>>
  /\ nextCard' = 1
  /\ pending' = {}
  /\ resolution' = <<>>
  /\ UNCHANGED <<written, arg, result>>

\* Lines 151-164: the options, the dictionary, the hints and the cards.  No
\* code reads a card before the loop takes it: rawCards holds the cards
\* taken so far and cardCount is the length of the array.
Startup(cli, file, dict, count) ==
  /\ pc = "start"
  /\ IsNull(cli.translations) <=> file = NoHintFile
  /\ pc' = "loop"
  /\ options' = parseOptions(cli)
  /\ hintFile' = file
  /\ dictionary' = dict
  /\ cardCount' = count
  /\ rawCards' = <<>>
  /\ translations' = loadTranslationHints(parseOptions(cli).translationPath, file)
  /\ UNCHANGED <<arg, result, enrichedCards, nextCard, pending, resolution, written>>

\* An unknown option, no tokenizer dictionary, no DEEPL_API_KEY, an unreadable
\* or malformed input file: main rejects before the loop.
StartupFails ==
  /\ pc = "start"
  /\ Exit("aborted")

\* Mutant: the calls of enrichCard are not awaited one by one.
LoopBlocked_never == FALSE

\* The await of line 168 keeps the loop from taking the next card while a
\* call of enrichCard is not finished.
LoopBlocked == pending # {}

\* Mutant: the outputs are written from inside the loop.
LoopDone_early == TRUE

\* The for-of of line 166 has taken every card.
LoopDone == nextCard > cardCount

\* The loop of line 166 can take its next card.
CanStartCard ==
  /\ pc = "loop"
  /\ ~LoopBlocked
  /\ ~LoopDone
  /\ nextCard <= cardCount

\* enrichCard, lines 202-230, for the next card of the loop.
StartCard(card) ==
  /\ CanStartCard
  /\ LET r == Resolve(card, dictionary, translations, options)
     IN /\ nextCard' = nextCard + 1
        /\ rawCards' = Append(rawCards, card)
        /\ IF r.shouldAutoTranslate
           THEN /\ pending' = pending \cup
                     {[index |-> nextCard, local |-> r,
                       request |-> Trim(OrEmpty(card.sentence)) # <<>>]}
                /\ UNCHANGED <<enrichedCards, resolution>>
           ELSE /\ enrichedCards' =
                     Append(enrichedCards, Enriched(card, r.translation, r.breakdown))
                /\ resolution' =
                     Append(resolution,
                            [index |-> nextCard, hint |-> r.hint, before |-> r.translation,
                             source |-> r.translationSource, invoked |-> FALSE,
                             request |-> FALSE, generated |-> NULL])
                /\ UNCHANGED pending
  /\ UNCHANGED <<arg, result, pc, options, hintFile, dictionary, cardCount, translations, written>>

\* The next element of the array is null, not a card: card.sentence throws
\* a TypeError.
CardFails ==
  /\ pc = "loop"
  /\ ~LoopBlocked
  /\ ~LoopDone
  /\ nextCard <= cardCount
  /\ Exit("aborted")

\* Lines 231-243: the translator returns and enrichCard finishes.  Without a
\* sentence the translator returns null and sends no request.  A call that
\* rejects makes enrichCard and main reject, and main().catch exits.
TranslatorReturns(p, response) ==
  /\ pc = "loop"
  /\ p \in pending
  /\ ~p.request => response = [error |-> TRUE]
  /\ LET generated == IF p.request THEN TranslatorResult(response) ELSE NULL
         translation == IF Accepted(generated) THEN generated.str ELSE p.local.translation
     IN IF "throws" \in DOMAIN generated
        THEN Exit("aborted")
        ELSE /\ translations' =
                  IF Accepted(generated)
                  THEN registerGeneratedTranslation(translations, p.local.card, generated.str)
                  ELSE translations
             /\ enrichedCards' =
                  Append(enrichedCards, Enriched(p.local.card, translation, p.local.breakdown))
             /\ resolution' =
                  Append(resolution,
                         [index |-> p.index, hint |-> p.local.hint,
                          before |-> p.local.translation,
                          source |-> IF Accepted(generated) THEN "deepl"
                                     ELSE p.local.translationSource,
                          invoked |-> TRUE, request |-> p.request, generated |-> generated])
             /\ pending' = pending \ {p}
             /\ UNCHANGED <<arg, result, pc, options, hintFile, dictionary, cardCount, rawCards,
                            nextCard, written>>

Write(files, path, content) == Append(files, [path |-> path, content |-> content])

\* Mutant: the cache is written whenever there is a save path.
ShouldPersist_always(opts, tr) == ~IsNull(opts.translationSavePath)

ShouldPersist(opts, tr) ==
  ~IsNull(opts.translationSavePath) /\ Len(tr.addedEntries) > 0

\* The file persistTranslations writes at outputPath.
persistTranslations(files, tr, outputPath) ==
  Write(files, outputPath,
        [entries |-> mergeTranslationEntries(tr.initialEntries, tr.addedEntries)])

\* Lines 181-191, reached when the loop has taken every card: three
\* synchronous writes, with no await between them.
CanWriteOutputs ==
  /\ pc = "loop"
  /\ ~LoopBlocked
  /\ LoopDone

WriteOutputs ==
  /\ CanWriteOutputs
  /\ LET json == Write(written, options.outputJsonPath, [cards |-> enrichedCards])
         tsv == IF options.writeTsv
                THEN Write(json, options.tsvPath, [text |-> cardsToTsv(enrichedCards)])
                ELSE json
     IN written' = IF ShouldPersist(options, translations)
                   THEN persistTranslations(tsv, translations,
                                            options.translationSavePath.str)
                   ELSE tsv
  /\ pc' = "done"
  /\ UNCHANGED <<arg, result, options, hintFile, dictionary, cardCount, rawCards, translations,
                 enrichedCards, nextCard, pending, resolution>>

Next ==
  \/ /\ pc = "start"
     /\ \E cli \in CommandLines, file \in HintFiles \cup {NoHintFile},
           dict \in Dictionaries, count \in 0..MaxCards :
          Startup(cli, file, dict, count)
  \/ StartupFails
  \/ /\ pc = "loop"
     /\ \E card \in Cards : StartCard(card)
  \/ CardFails
  \/ \E p \in pending, response \in ApiResponses : TranslatorReturns(p, response)
  \/ WriteOutputs

Spec == Init /\ [][Next]_vars

\* The runs in which main reaches the loop and every element of the input
\* array is a card: no unknown option, missing file or malformed input.
LiveStartup ==
  /\ pc = "start"
  /\ \E cli \in CommandLines, file \in HintFiles \cup {NoHintFile},
        dict \in Dictionaries, count \in 0..MaxCards :
       Startup(cli, file, dict, count)

LiveStartCard ==
  /\ pc = "loop"
  /\ \E card \in Cards : StartCard(card)

LiveTranslatorReturns ==
  \E p \in pending, response \in ApiResponses : TranslatorReturns(p, response)

NextLive ==
  \/ LiveStartup
  \/ LiveStartCard
  \/ LiveTranslatorReturns
  \/ WriteOutputs

\* main runs its synchronous code to the next await, a request to the
\* service settles (it resolves or rejects), and the event loop then runs the
\* continuation that waits for it: each step is weakly fair.  For
\* LiveStartCard and WriteOutputs, which beyond their guards only assign,
\* weak fairness is written out with the guard as the enabling condition.
Fairness ==
  /\ WF_vars(LiveStartup)
  /\ WF_vars(LiveTranslatorReturns)
  /\ ([]<>(~CanStartCard) \/ []<><<LiveStartCard>>_vars)
  /\ ([]<>(~CanWriteOutputs) \/ []<><<WriteOutputs>>_vars)

SpecLive == Init /\ [][NextLive]_vars /\ Fairness

-----------------------------------------------------------------------------
(* pickTranslation on its own: every card against every state of the three  *)
(* indices.  The keys of bySentence are trimmed and not empty, as            *)
(* sanitizeTranslationEntry and registerGeneratedTranslation leave them.     *)

Valued(prefix, keys) == [k \in keys |-> prefix \o k]

PickStates ==
  { [EmptyState(NULL) EXCEPT !.byId = Valued(<<"I">>, ki),
                             !.bySubtitleId = Valued(<<"S">>, ks),
                             !.bySentence = Valued(<<"Z">>, kz)] :
      ki \in SUBSET {<<"1">>, <<"2">>},
      ks \in SUBSET {<<"7">>, <<"1">>},
      kz \in SUBSET {<<"a">>} }

InitPick ==
  /\ pc = "pick"
  /\ options = parseOptions(NoArgs)
  /\ hintFile = NoHintFile
  /\ dictionary = [k \in {} |-> NULL]
  /\ cardCount = 1
  /\ rawCards \in [1..1 -> Cards]
  /\ translations \in PickStates
  /\ enrichedCards = <<>>
  /\ nextCard = 1
  /\ pending = {}
  /\ resolution = <<>>
  /\ written = <<>>
  /\ arg = NULL
  /\ result = NULL

Pick ==
  /\ pc = "pick"
  /\ pc' = "picked"
  /\ resolution' = <<[hint |-> pickTranslation(rawCards[1], translations)]>>
  /\ UNCHANGED <<arg, result, options, hintFile, dictionary, cardCount, rawCards, translations,
                 enrichedCards, nextCard, pending, written>>

NextPick == Pick

SpecPick == InitPick /\ [][NextPick]_vars

-----------------------------------------------------------------------------
(* mergeTranslationEntries on its own: every split of every short list of   *)
(* sanitized entries into the loaded ones and the added ones.                *)

MaxEntries == 3

MergeEntries ==
  [id : {NULL, Num(1)}, subtitleId : {NULL, Num(1)},
   sentence : {NULL, Str(<<"a">>)}, translation : {<<"A">>, <<"B">>}]

InitMerge ==
  /\ pc = "merge"
  /\ options = parseOptions(NoArgs)
  /\ hintFile = NoHintFile
  /\ dictionary = [k \in {} |-> NULL]
  /\ cardCount = 0
  /\ rawCards = <<>>
  /\ \E n \in 0..MaxEntries :
       \E all \in [1..n -> MergeEntries], cut \in 0..n :
         translations = [EmptyState(NULL) EXCEPT
                           !.initialEntries = SubSeq(all, 1, cut),
                           !.addedEntries = SubSeq(all, cut + 1, n)]
  /\ enrichedCards = <<>>
  /\ nextCard = 1
  /\ pending = {}
  /\ resolution = <<>>
  /\ written = <<>>
  /\ arg = NULL
  /\ result = NULL

Merge ==
  /\ pc = "merge"
  /\ pc' = "merged"
  /\ written' = persistTranslations(written, translations, "cache.json")
  /\ UNCHANGED <<arg, result, options, hintFile, dictionary, cardCount, rawCards, translations,
                 enrichedCards, nextCard, pending, resolution>>

NextMerge == Merge

SpecMerge == InitMerge /\ [][NextMerge]_vars

-----------------------------------------------------------------------------
(* scripts/parseSubs.ts: from the text of a subtitle file to cards *)

\* The byte order mark U+FEFF, one character.
BOM == "U+FEFF"

\* The positions of s that are in the set at, in order.
Positions(s, at) == SelectSeq([k \in 1..Len(s) |-> k], LAMBDA k : k \in at)

\* content.replace(/\r\n/g, '\n'): a carriage return goes when a line feed
\* follows it.
ReplaceCrLf(s) ==
  LET kept == Positions(s, {k \in 1..Len(s) :
                               ~(s[k] = "\r" /\ k < Len(s) /\ s[k + 1] = "\n")})
  IN [i \in 1..Len(kept) |-> s[kept[i]]]

Remove(s, c) == SelectSeq(s, LAMBDA x : x # c)

\* content.replace(/\r\n/g, '\n').replace(/﻿/g, '')
Normalized(content) == Remove(ReplaceCrLf(content), BOM)

\* s.split(separator): the pieces of s around the separators, which start at
\* the positions seps and are widths[1], widths[2], ... long.
Pieces(s, seps, widths) ==
  [i \in 1..(Len(seps) + 1) |->
     SubSeq(s,
            IF i = 1 THEN 1 ELSE seps[i - 1] + widths[i - 1],
            IF i = Len(seps) + 1 THEN Len(s) ELSE seps[i] - 1)]

\* The number of line feeds of s from position k on.
LineFeeds(s, k) ==
  Cardinality({j \in k..Len(s) : \A i \in k..j : s[i] = "\n"})

\* Mutant: split(/\n{3,}/), a block ends at two empty lines.
BlockBreak_twoEmptyLines(run) == run >= 3

\* split(/\n{2,}/): a run of line feeds this long separates two blocks.
BlockBreak(run) == run >= 2

\* s.split(/\n{2,}/)
SplitBlocks(s) ==
  LET seps == Positions(s, {k \in 1..Len(s) : /\ s[k] = "\n"
                                                /\ (k = 1 \/ s[k - 1] # "\n")
                                                /\ BlockBreak(LineFeeds(s, k))})
  IN Pieces(s, seps, [i \in 1..Len(seps) |-> LineFeeds(s, seps[i])])

\* s.split('\n')
SplitLines(s) ==
  LET seps == Positions(s, {k \in 1..Len(s) : s[k] = "\n"})
  IN Pieces(s, seps, [i \in 1..Len(seps) |-> 1])

Arrow == <<"-", "-", ">">>

StartsAt(s, k, sub) ==
  k + Len(sub) - 1 <= Len(s) /\ SubSeq(s, k, k + Len(sub) - 1) = sub

\* line.includes('-->')
Includes(s, sub) == \E k \in 1..Len(s) : StartsAt(s, k, sub)

\* line.split('-->'): two occurrences of the arrow never overlap.
SplitOnArrow(s) ==
  LET seps == Positions(s, {k \in 1..Len(s) : StartsAt(s, k, Arrow)})
  IN Pieces(s, seps, [i \in 1..Len(seps) |-> Len(Arrow)])

\* lines.findIndex((line) => line.trim().length > 0), 0 for not found.
FindMeaningful(lines) ==
  IF \E k \in 1..Len(lines) : Trim(lines[k]) # <<>>
  THEN CHOOSE k \in 1..Len(lines) :
         /\ Trim(lines[k]) # <<>>
         /\ \A j \in 1..(k - 1) : Trim(lines[j]) = <<>>
  ELSE 0

\* /(\d{2}):(\d{2}):(\d{2}),(\d{3})/ matches s at position k.
Digits(s, from, n) == \A j \in from..(from + n - 1) : IsDigit(s[j])

MatchesAt(s, k) ==
  /\ k + 11 <= Len(s)
  /\ Digits(s, k, 2) /\ s[k + 2] = ":"
  /\ Digits(s, k + 3, 2) /\ s[k + 5] = ":"
  /\ Digits(s, k + 6, 2) /\ s[k + 8] = ","
  /\ Digits(s, k + 9, 3)

\* Number(text) for a run of digits
NumberOf(s) == ParseDigits(s, 0)

TimecodeValue(s, k) ==
  NumberOf(SubSeq(s, k, k + 1)) * 3600 * 1000
  + NumberOf(SubSeq(s, k + 3, k + 4)) * 60 * 1000
  + NumberOf(SubSeq(s, k + 6, k + 7)) * 1000
  + NumberOf(SubSeq(s, k + 9, k + 11))

\* timecode is NULL or Str(s); match() finds the first place where the
\* pattern matches.
timecodeToMs(timecode) ==
  IF ~Truthy(timecode) THEN NULL
  ELSE LET s == timecode.str
           places == {k \in 1..Len(s) : MatchesAt(s, k)}
       IN IF places = {} THEN NULL
          ELSE Num(TimecodeValue(s, CHOOSE k \in places : \A j \in places : k <= j))

\* lines.slice(cursor).map((line) => line.replace(/\r/g, '').trim()).filter(Boolean)
TextLines(lines, cursor) ==
  LET rest == SubSeq(lines, cursor, Len(lines))
      cleaned == [k \in 1..Len(rest) |-> Trim(Remove(rest[k], "\r"))]
  IN SelectSeq(cleaned, LAMBDA line : line # <<>>)

\* Number.parseInt(lines[cursor].trim(), 10)
IndexOf(line) == ParseInt(line)

\* Mutant: the block counter is used for auto-numbering.
NextRawId_byBlock(entries, blockNo) == blockNo

\* entries.length + 1
NextRawId(entries, blockNo) == Len(entries) + 1

\* One pass of the loop of lines 96-141: the entries with the entry of the
\* block, if it has one.  blockNo is the position of the block.
parseBlock(entries, block, blockNo) ==
  LET lines == SplitLines(block)
      meaningfulStart == FindMeaningful(lines)
      maybeId == IF meaningfulStart = 0 THEN NaN
                 ELSE IndexOf(Trim(lines[meaningfulStart]))
      hasId == maybeId # NaN
      rawId == IF hasId THEN maybeId.num ELSE NextRawId(entries, blockNo)
      timeAt == IF hasId THEN meaningfulStart + 1 ELSE meaningfulStart
      hasTime == timeAt <= Len(lines) /\ Includes(lines[timeAt], Arrow)
      parts == SplitOnArrow(lines[timeAt])
      start == IF hasTime THEN Str(Trim(parts[1])) ELSE NULL
      end == IF hasTime THEN Str(Trim(parts[2])) ELSE NULL
      cursor == IF hasTime THEN timeAt + 1 ELSE timeAt
      textLines == TextLines(lines, cursor)
  IN IF meaningfulStart = 0 \/ textLines = <<>> THEN entries
     ELSE Append(entries,
                 [index |-> Len(entries) + 1,
                  rawId |-> rawId,
                  start |-> start,
                  end |-> end,
                  startMs |-> timecodeToMs(start),
                  endMs |-> timecodeToMs(end),
                  text |-> Join(textLines, <<" ">>)])

RECURSIVE parseBlocks(_, _, _)
parseBlocks(entries, blocks, blockNo) ==
  IF blockNo > Len(blocks) THEN entries
  ELSE parseBlocks(parseBlock(entries, blocks[blockNo], blockNo), blocks, blockNo + 1)

Blocks(content) == SplitBlocks(Normalized(content))

parseSrt(content) == parseBlocks(<<>>, Blocks(content), 1)

buildCards(subtitles) ==
  [idx \in 1..Len(subtitles) |->
     [id |-> Num(idx),
      subtitleId |-> Num(subtitles[idx].rawId),
      sentence |-> Str(subtitles[idx].text),
      translation |-> Str(<<>>),
      romaji |-> Str(<<>>),
      furigana |-> Str(<<>>),
      startTime |-> subtitles[idx].start,
      endTime |-> subtitles[idx].end,
      startMs |-> subtitles[idx].startMs,
      endMs |-> subtitles[idx].endMs]]

\* The lines of the subtitle files tried: empty, blank, an index, a text, a
\* time range, a text between the byte order mark and a carriage return, a
\* text that starts with a digit.
MaxLines == 4

TimeLine ==
  <<"0", "0", ":", "0", "0", ":", "0", "1", ",", "0", "0", "0", " ", "-", "-", ">", " ",
    "0", "0", ":", "0", "1", ":", "0", "2", ",", "5", "0", "0">>

SrtLines ==
  {<<>>, <<" ">>, <<"7">>, <<"x">>, TimeLine, <<BOM, "y", "\r">>, <<"3", "x">>}

InitSrt ==
  /\ pc = "srt"
  /\ options = parseOptions(NoArgs)
  /\ hintFile = NoHintFile
  /\ dictionary = [k \in {} |-> NULL]
  /\ cardCount = 0
  /\ rawCards = <<>>
  /\ translations = EmptyState(NULL)
  /\ enrichedCards = <<>>
  /\ nextCard = 1
  /\ pending = {}
  /\ resolution = <<>>
  /\ written = <<>>
  /\ \E n \in 0..MaxLines : arg \in [1..n -> SrtLines]
  /\ result = NULL

\* main of parseSubs.ts from line 67 on, with the outputs the command line
\* asks for (parseOptions refuses a command line that asks for none).  The
\* file holds the lines of arg, each followed by a line feed except the last.
\* result keeps the blocks, the entries and the cards of the run.
ParseSubs ==
  /\ pc = "srt"
  /\ LET rawContent == Join(arg, <<"\n">>)
         subtitles == parseSrt(rawContent)
         cards == buildCards(subtitles)
     IN /\ result' = [blocks |-> Blocks(rawContent),
                      subtitles |-> subtitles,
                      cards |-> cards]
        /\ pc' = IF subtitles = <<>> THEN "aborted" ELSE "parsed"
        /\ \E writeJson, writeTsv \in BOOLEAN :
             /\ writeJson \/ writeTsv
             /\ LET json == IF writeJson
                            THEN Write(written, "episode.cards.json", [cards |-> cards])
                            ELSE written
                IN written' =
                     IF subtitles = <<>> THEN written
                     ELSE IF writeTsv
                     THEN Write(json, "episode.cards.tsv", [text |-> cardsToTsv(cards)])
                     ELSE json
  /\ UNCHANGED <<options, hintFile, dictionary, cardCount, rawCards, translations,
                 enrichedCards, nextCard, pending, resolution, arg>>

NextSrt == ParseSubs

SpecSrt == InitSrt /\ [][NextSrt]_vars

-----------------------------------------------------------------------------
(* timecodeToMs on its own *)

\* The strings tried: something before, hours, a separator, minutes,
\* seconds, a separator, milliseconds, something after.  One-digit hours
\* behind "1" and two-digit milliseconds before "0" are timecodes again.
TimecodeInputs ==
  {NULL, Str(<<>>)} \cup
  { Str(before \o hh \o <<sep1>> \o mm \o <<":">> \o ss \o <<sep2>> \o ms \o after) :
      before \in {<<>>, <<"x">>, <<"1">>},
      hh \in {<<"0", "0">>, <<"1", "2">>, <<"9">>},
      sep1 \in {":", "."},
      mm \in {<<"0", "0">>, <<"5", "9">>},
      ss \in {<<"0", "0">>, <<"0", "7">>},
      sep2 \in {",", "."},
      ms \in {<<"0", "0", "0">>, <<"9", "9", "9">>, <<"5", "0">>},
      after \in {<<>>, <<"0">>, <<" ">>} }

InitTimecode ==
  /\ pc = "timecode"
  /\ options = parseOptions(NoArgs)
  /\ hintFile = NoHintFile
  /\ dictionary = [k \in {} |-> NULL]
  /\ cardCount = 0
  /\ rawCards = <<>>
  /\ translations = EmptyState(NULL)
  /\ enrichedCards = <<>>
  /\ nextCard = 1
  /\ pending = {}
  /\ resolution = <<>>
  /\ written = <<>>
  /\ arg \in TimecodeInputs
  /\ result = NULL

Timecode ==
  /\ pc = "timecode"
  /\ pc' = "timecoded"
  /\ result' = timecodeToMs(arg)
  /\ UNCHANGED <<options, hintFile, dictionary, cardCount, rawCards, translations,
                 enrichedCards, nextCard, pending, resolution, written, arg>>

NextTimecode == Timecode

SpecTimecode == InitTimecode /\ [][NextTimecode]_vars

-----------------------------------------------------------------------------
(* clean and cardsToTsv on their own *)

MaxLen == 3

CleanChars == {"a", " ", "\t", "\n", "\r"}

\* null and the strings of up to MaxLen characters.
CleanValues ==
  {NULL} \cup {Str(s) : s \in UNION {[1..n -> CleanChars] : n \in 0..MaxLen}}

FirstCards ==
  [sentence : CleanValues,
   translation : {NULL, Str(<<"\t", "b", "\r", "\n", "c", " ">>)}]

SecondCards ==
  [sentence : {Str(<<>>), Str(<<"d", "\n">>)}, translation : {Str(<<"e">>)}]

InitClean ==
  /\ pc = "clean"
  /\ options = parseOptions(NoArgs)
  /\ hintFile = NoHintFile
  /\ dictionary = [k \in {} |-> NULL]
  /\ cardCount = 0
  /\ rawCards = <<>>
  /\ translations = EmptyState(NULL)
  /\ enrichedCards = <<>>
  /\ nextCard = 1
  /\ pending = {}
  /\ resolution = <<>>
  /\ written = <<>>
  /\ \/ arg = <<>>
     \/ \E first \in FirstCards : arg = <<first>>
     \/ \E first \in FirstCards, second \in SecondCards : arg = <<first, second>>
  /\ result = NULL

\* clean on the two fields of every card, clean on its own results, and
\* cardsToTsv on the cards.
Clean ==
  /\ pc = "clean"
  /\ pc' = "cleaned"
  /\ result' =
       [once |-> [k \in 1..Len(arg) |->
                    [sentence |-> clean(arg[k].sentence),
                     translation |-> clean(arg[k].translation)]],
        twice |-> [k \in 1..Len(arg) |->
                     [sentence |-> clean(Str(clean(arg[k].sentence))),
                      translation |-> clean(Str(clean(arg[k].translation)))]],
        tsv |-> cardsToTsv(arg)]
  /\ UNCHANGED <<options, hintFile, dictionary, cardCount, rawCards, translations,
                 enrichedCards, nextCard, pending, resolution, written, arg>>

NextClean == Clean

SpecClean == InitClean /\ [][NextClean]_vars

-----------------------------------------------------------------------------
(* Properties *)

\* The card of the k-th finished call of enrichCard, and what it ended with.
CardOf(k) == rawCards[resolution[k].index]
FinalOf(k) == enrichedCards[k].translation
OwnTranslation(card) == Trim(OrEmpty(card.translation))
TrimmedSentence(card) == Trim(OrEmpty(card.sentence))
Succeeded(r) == r.invoked /\ Truthy(r.generated)
Failed(r) == r.invoked /\ ~Truthy(r.generated)

\* C1: the hint lookup is strictly ordered.  A byId entry for String(card.id)
\* supplies the translation whatever the other two indices hold; otherwise a
\* bySubtitleId entry for a card that has a subtitleId supplies it; otherwise
\* a bySentence entry for the trimmed sentence; and the lookup returns null
\* only when none of the three indices has the card's key.
C1_PickOrder ==
  pc = "picked" =>
    LET card == rawCards[1]
        found == resolution[1].hint
        idKey == StringOf(card.id)
        subKey == StringOf(card.subtitleId)
        byIdHit == idKey \in DOMAIN translations.byId
        bySubHit == ~IsNull(card.subtitleId) /\ subKey \in DOMAIN translations.bySubtitleId
        bySentenceHit == TrimmedSentence(card) \in DOMAIN translations.bySentence
    IN /\ byIdHit => found = Str(translations.byId[idKey])
       /\ (~byIdHit /\ bySubHit) => found = Str(translations.bySubtitleId[subKey])
       /\ (~byIdHit /\ ~bySubHit /\ bySentenceHit)
            => found = Str(translations.bySentence[TrimmedSentence(card)])
       /\ IsNull(found) <=> (~byIdHit /\ ~bySubHit /\ ~bySentenceHit)

\* All three indices hold the card's key, and the byId entry was returned.
C1_Witness ==
  /\ pc = "picked"
  /\ StringOf(rawCards[1].id) \in DOMAIN translations.byId
  /\ ~IsNull(rawCards[1].subtitleId)
  /\ StringOf(rawCards[1].subtitleId) \in DOMAIN translations.bySubtitleId
  /\ TrimmedSentence(rawCards[1]) \in DOMAIN translations.bySentence
  /\ resolution[1].hint = Str(translations.byId[StringOf(rawCards[1].id)])

\* C2: a card for which a hint was found ends with exactly the hint's text,
\* and the translator is not called for it, whatever the options are.
C2_HintNeverOverridden ==
  /\ \A k \in 1..Len(resolution) :
       Truthy(resolution[k].hint) =>
         /\ FinalOf(k) = resolution[k].hint
         /\ ~resolution[k].invoked
  /\ \A p \in pending : ~Truthy(p.local.hint)

\* A hint won for a card that has a translation of its own, with
\* auto-translation on and replacing.
C2_Witness ==
  \E k \in 1..Len(resolution) :
    /\ Truthy(resolution[k].hint)
    /\ OwnTranslation(CardOf(k)) # <<>>
    /\ options.autoTranslate /\ options.autoTranslateReplace
    /\ FinalOf(k) = resolution[k].hint

\* Two cards share a key under which a generated translation is registered.
SharesKey(a, b) ==
  \/ a.id = b.id
  \/ ~IsNull(a.subtitleId) /\ a.subtitleId = b.subtitleId
  \/ TrimmedSentence(a) # <<>> /\ TrimmedSentence(a) = TrimmedSentence(b)

\* C3: once the translator has succeeded for a card, its text is in byId,
\* in bySubtitleId if the card has a subtitleId and in bySentence if the
\* trimmed sentence is not empty, and addedEntries holds one entry per
\* success; every later card with the same id, subtitleId or trimmed
\* sentence is resolved by a hint and the translator is not called for it.
C3_GeneratedIsReused ==
  /\ Len(translations.addedEntries)
       = Cardinality({k \in 1..Len(resolution) : Succeeded(resolution[k])})
  /\ \A k \in 1..Len(resolution) :
       Succeeded(resolution[k]) =>
         LET card == CardOf(k)
             text == resolution[k].generated.str
         IN /\ StringOf(card.id) \in DOMAIN translations.byId
            /\ translations.byId[StringOf(card.id)] = text
            /\ ~IsNull(card.subtitleId) =>
                 /\ StringOf(card.subtitleId) \in DOMAIN translations.bySubtitleId
                 /\ translations.bySubtitleId[StringOf(card.subtitleId)] = text
            /\ TrimmedSentence(card) # <<>> =>
                 /\ TrimmedSentence(card) \in DOMAIN translations.bySentence
                 /\ translations.bySentence[TrimmedSentence(card)] = text
            /\ \E j \in 1..Len(translations.addedEntries) :
                 /\ translations.addedEntries[j].translation = text
                 /\ translations.addedEntries[j].id = card.id
                 /\ translations.addedEntries[j].subtitleId = card.subtitleId
            /\ \A j \in 1..Len(resolution) :
                 (resolution[j].index > resolution[k].index /\ SharesKey(card, CardOf(j)))
                   => (Truthy(resolution[j].hint) /\ ~resolution[j].invoked)
            /\ \A p \in pending :
                 p.index > resolution[k].index => ~SharesKey(card, p.local.card)

\* The second card shares only the sentence with the first, for which the
\* translator succeeded, and is resolved from the cache without a call.
C3_Witness ==
  /\ Len(resolution) = 2
  /\ Succeeded(resolution[1])
  /\ CardOf(1).id # CardOf(2).id
  /\ CardOf(1).subtitleId # CardOf(2).subtitleId
  /\ TrimmedSentence(CardOf(1)) = TrimmedSentence(CardOf(2))
  /\ FinalOf(2) = resolution[1].generated
  /\ ~resolution[2].invoked

\* C4: with auto-translation on, the translator is called for a card exactly
\* when tiers 1-5 gave the empty string, or when replacing is on and no hint
\* was found; with auto-translation off it is never called.  In keep mode a
\* card with a translation of its own or a non-empty literal gets no call.
C4_WhenTranslatorIsCalled ==
  /\ \A k \in 1..Len(resolution) :
       LET r == resolution[k]
           literal == buildLiteralTranslation(Breakdown(CardOf(k), dictionary))
       IN /\ r.invoked <=>
               (options.autoTranslate
                /\ (r.before = <<>> \/ (options.autoTranslateReplace /\ ~Truthy(r.hint))))
          /\ r.request => r.invoked
          /\ (options.autoTranslate /\ ~options.autoTranslateReplace
              /\ (OwnTranslation(CardOf(k)) # <<>> \/ literal # <<>>)) => ~r.invoked
  /\ \A p \in pending :
       /\ options.autoTranslate
       /\ p.local.translation = <<>>
            \/ (options.autoTranslateReplace /\ ~Truthy(p.local.hint))

\* Replacing: the translator was called for one card although tier 5 had
\* given a translation, and not for the other card of the run.
C4_Witness ==
  /\ Len(resolution) = 2
  /\ \E k \in 1..2 :
       /\ resolution[k].invoked /\ resolution[k].request
       /\ resolution[k].before # <<>>
       /\ options.autoTranslateReplace
       /\ ~resolution[3 - k].invoked

\* The keys the entries of the hint file are registered under.
LoadedIds ==
  {StringOf(translations.initialEntries[j].id) :
     j \in {i \in 1..Len(translations.initialEntries) :
              ~IsNull(translations.initialEntries[i].id)}}
LoadedSubtitleIds ==
  {StringOf(translations.initialEntries[j].subtitleId) :
     j \in {i \in 1..Len(translations.initialEntries) :
              ~IsNull(translations.initialEntries[i].subtitleId)}}
LoadedSentences ==
  {translations.initialEntries[j].sentence.str :
     j \in {i \in 1..Len(translations.initialEntries) :
              ~IsNull(translations.initialEntries[i].sentence)}}

SucceededCards == {CardOf(k) : k \in {j \in 1..Len(resolution) : Succeeded(resolution[j])}}

\* C5: a card for which the translator returned nothing ends with the
\* translation that tiers 4-5 gave before the call, and such a call leaves
\* the TranslationState alone: the keys of the indices are those of the hint
\* file and of the cards the translator succeeded for, and addedEntries has
\* one entry per success.
C5_FailureKeepsFallback ==
  /\ \A k \in 1..Len(resolution) :
       Failed(resolution[k]) =>
         /\ FinalOf(k) = Str(resolution[k].before)
         /\ ~Truthy(resolution[k].hint)
  /\ Len(translations.addedEntries)
       = Cardinality({k \in 1..Len(resolution) : Succeeded(resolution[k])})
  /\ DOMAIN translations.byId = LoadedIds \cup {StringOf(c.id) : c \in SucceededCards}
  /\ DOMAIN translations.bySubtitleId
       = LoadedSubtitleIds
         \cup {StringOf(c.subtitleId) : c \in {d \in SucceededCards : ~IsNull(d.subtitleId)}}
  /\ DOMAIN translations.bySentence
       = LoadedSentences
         \cup {TrimmedSentence(c) : c \in {d \in SucceededCards : TrimmedSentence(d) # <<>>}}

\* A request to the service failed for a card whose literal is not empty.
C5_Witness ==
  \E k \in 1..Len(resolution) :
    /\ Failed(resolution[k])
    /\ resolution[k].request
    /\ resolution[k].before # <<>>
    /\ FinalOf(k) = Str(resolution[k].before)

\* C6: the card's own translation is the resolved one only when no hint was
\* found and auto-translation is off or keeping; when keeping, a card with a
\* translation of its own and no hint ends with it and gets no call.
C6_OwnTranslation ==
  /\ \A k \in 1..Len(resolution) :
       LET r == resolution[k]
           own == OwnTranslation(CardOf(k))
       IN /\ r.source = "card" =>
               /\ ~Truthy(r.hint)
               /\ ~options.autoTranslate \/ ~options.autoTranslateReplace
               /\ own # <<>> /\ FinalOf(k) = Str(own)
          /\ (options.autoTranslate /\ ~options.autoTranslateReplace
              /\ ~Truthy(r.hint) /\ own # <<>>)
               => (FinalOf(k) = Str(own) /\ ~r.invoked /\ r.source = "card")
  /\ \A p \in pending : p.local.translationSource # "card"

\* Keeping: a card ended with its own translation.
C6_Witness ==
  \E k \in 1..Len(resolution) :
    /\ options.autoTranslate /\ ~options.autoTranslateReplace
    /\ resolution[k].source = "card"
    /\ FinalOf(k) = Str(OwnTranslation(CardOf(k)))

\* C7: the cards are processed one after the other in input order.  At most
\* one call of the translator is in flight, it is the call for the last card
\* taken, and every card taken before it is finished: the k-th finished card
\* is the k-th card of the input.
C7_Sequential ==
  /\ Cardinality(pending) <= 1
  /\ nextCard - 1 = Len(enrichedCards) + Cardinality(pending)
  /\ \A p \in pending : p.index = nextCard - 1
  /\ Len(resolution) = Len(enrichedCards)
  /\ \A k \in 1..Len(enrichedCards) :
       /\ resolution[k].index = k
       /\ enrichedCards[k].id = rawCards[k].id
       /\ enrichedCards[k].sentence = rawCards[k].sentence

\* The request for the second card is in flight after the first card was
\* finished with a generated translation.
C7_Witness ==
  /\ \E p \in pending : p.request /\ p.index = 2
  /\ Len(enrichedCards) = 1
  /\ Succeeded(resolution[1])

CacheWrites == {k \in 1..Len(written) : "entries" \in DOMAIN written[k].content}

\* C8 as stated: a finished run has written the cache exactly when an entry
\* was added.
C8_Original ==
  pc = "done" => (Len(translations.addedEntries) > 0 <=> CacheWrites # {})

\* C8, amended: a finished run has written the cache exactly when an entry
\* was added and a save path is set (--translations-out, or else the
\* --translations path); the file is written at the save path and holds
\* the merge of the loaded and the added entries, every added entry among them.
C8_PersistedWhenAdded ==
  pc = "done" =>
    /\ CacheWrites # {} <=>
         (Len(translations.addedEntries) > 0 /\ ~IsNull(options.translationSavePath))
    /\ \A k \in CacheWrites :
         /\ written[k].path = options.translationSavePath.str
         /\ \A j \in 1..Len(translations.addedEntries) :
              \E i \in 1..Len(written[k].content.entries) :
                written[k].content.entries[i] = translations.addedEntries[j]
         /\ \A i \in 1..Len(written[k].content.entries) :
              \/ \E j \in 1..Len(translations.addedEntries) :
                   written[k].content.entries[i] = translations.addedEntries[j]
              \/ \E j \in 1..Len(translations.initialEntries) :
                   written[k].content.entries[i] = translations.initialEntries[j]

\* A run that loaded hints and added an entry wrote both into the cache.
C8_Witness ==
  /\ pc = "done"
  /\ Len(translations.addedEntries) > 0
  /\ Len(translations.initialEntries) > 0
  /\ \E k \in CacheWrites : Len(written[k].content.entries) >= 3

\* The key the merge is said to use: the subtitleId, else the id, else the
\* sentence.
Named(e) == ~IsNull(e.subtitleId) \/ ~IsNull(e.id) \/ ~IsNull(e.sentence)
NameOf(e) ==
  IF ~IsNull(e.subtitleId) THEN <<"subtitleId", e.subtitleId>>
  ELSE IF ~IsNull(e.id) THEN <<"id", e.id>>
  ELSE <<"sentence", e.sentence>>

\* C9: the merge keeps one entry per key, the key being the subtitleId, else
\* the id, else the sentence; the entry kept for a key is the last one of
\* (existing, then additions) with that key; entries with none of the three
\* fields are all kept.
C9_MergeByKey ==
  pc = "merged" =>
    LET input == translations.initialEntries \o translations.addedEntries
        output == written[1].content.entries
        LastWith(name) ==
          CHOOSE k \in 1..Len(input) :
            /\ Named(input[k]) /\ NameOf(input[k]) = name
            /\ \A j \in (k + 1)..Len(input) :
                 ~(Named(input[j]) /\ NameOf(input[j]) = name)
        names == {NameOf(input[k]) : k \in {j \in 1..Len(input) : Named(input[j])}}
    IN /\ \A i, j \in 1..Len(output) :
            (i # j /\ Named(output[i]) /\ Named(output[j]))
              => NameOf(output[i]) # NameOf(output[j])
       /\ \A name \in names :
            \E i \in 1..Len(output) : output[i] = input[LastWith(name)]
       /\ Cardinality({i \in 1..Len(output) : ~Named(output[i])})
            = Cardinality({k \in 1..Len(input) : ~Named(input[k])})
       /\ Len(output) = Cardinality(names)
                        + Cardinality({k \in 1..Len(input) : ~Named(input[k])})

\* An added entry replaced a loaded one with the same subtitleId, an added
\* entry with that number as its id only was kept beside it, and two entries
\* without any of the fields were both kept.
C9_Witness ==
  /\ pc = "merged"
  /\ Len(translations.initialEntries) >= 1
  /\ \E a \in 1..Len(translations.addedEntries), b \in 1..Len(translations.initialEntries) :
       /\ ~IsNull(translations.addedEntries[a].subtitleId)
       /\ translations.addedEntries[a].subtitleId = translations.initialEntries[b].subtitleId
       /\ translations.addedEntries[a].translation # translations.initialEntries[b].translation
       /\ \E i \in 1..Len(written[1].content.entries) :
            written[1].content.entries[i] = translations.addedEntries[a]
       /\ \A i \in 1..Len(written[1].content.entries) :
            written[1].content.entries[i] # translations.initialEntries[b]

\* C10: a file is written only when every card is finished; a run that
\* aborted while loading its inputs or in a card has written nothing; the
\* cache is written at most once.
C10_NoPartialOutput ==
  /\ written # <<>> =>
       /\ pc = "done"
       /\ pending = {}
       /\ Len(enrichedCards) = cardCount
  /\ pc = "aborted" => written = <<>>
  /\ Cardinality(CacheWrites) <= 1

\* A finished run of two cards that wrote the three files.
C10_Witness ==
  /\ pc = "done"
  /\ cardCount = 2
  /\ Len(enrichedCards) = 2
  /\ Len(written) = 3
  /\ Cardinality(CacheWrites) = 1

-----------------------------------------------------------------------------
(* C11 *)

WrittenTo(path) == {k \in 1..Len(written) : written[k].path = path}

\* The run is over with every card resolved and the outputs written.
Completed ==
  /\ pc = "done"
  /\ Len(enrichedCards) = cardCount
  /\ \E k \in WrittenTo(options.outputJsonPath) :
       written[k].content = [cards |-> enrichedCards]
  /\ options.writeTsv =>
       \E k \in WrittenTo(options.tsvPath) :
         written[k].content = [text |-> cardsToTsv(enrichedCards)]

\* A card without hint and without translation of its own, whose call of
\* the translator failed.
FailedBare(k) ==
  /\ Failed(resolution[k])
  /\ ~Truthy(resolution[k].hint)
  /\ OwnTranslation(CardOf(k)) = <<>>

\* C11: whatever the translation service answers, a run that has started
\* its loop over a list of cards completes: every card is resolved, the
\* structured output and, when enabled, the tabular output are written; and
\* a card without hint and without translation of its own whose call failed
\* ends with the literal translation of its tokens.
C11_RunCompletes ==
  /\ <>Completed
  /\ [](\A k \in 1..Len(resolution) :
          FailedBare(k) =>
            FinalOf(k) = Str(buildLiteralTranslation(Breakdown(CardOf(k), dictionary))))

C11_Witness ==
  /\ Completed
  /\ options.writeTsv
  /\ cardCount = MaxCards
  /\ \E k \in 1..Len(resolution) :
       /\ FailedBare(k)
       /\ resolution[k].request
       /\ resolution[k].generated = NULL
       /\ FinalOf(k) = Str(<<"G">>)

-----------------------------------------------------------------------------
(* C12 - C14, C18: the parser on its own *)

\* parseSrt and buildCards have run.
Parsed == pc \in {"parsed", "aborted"} /\ ~IsNull(result)

\* The line is an integer and nothing else.
IsInteger(line) ==
  LET body == IF line # <<>> /\ Head(line) \in {"-", "+"} THEN Tail(line) ELSE line
  IN body # <<>> /\ \A k \in 1..Len(body) : IsDigit(body[k])

\* The first non-blank line of a block, trimmed; <<>> for a blank block.
FirstLine(block) ==
  LET lines == SplitLines(block)
  IN IF FindMeaningful(lines) = 0 THEN <<>> ELSE Trim(lines[FindMeaningful(lines)])

\* The lines of a block after its first non-blank line.
AfterFirstLine(block) ==
  LET lines == SplitLines(block)
  IN SubSeq(lines, FindMeaningful(lines) + 1, Len(lines))

\* A block with a caption: after an index line, if the block starts with an
\* integer, and after a time range, if one follows, a line with text is left.
HasCaption(block) ==
  LET rest == IF IsInteger(FirstLine(block))
              THEN AfterFirstLine(block)
              ELSE <<FirstLine(block)>> \o AfterFirstLine(block)
      text == IF rest # <<>> /\ Includes(rest[1], Arrow) THEN Tail(rest) ELSE rest
  IN FirstLine(block) # <<>> /\ TextLines(text, 1) # <<>>

CaptionBlocks == {k \in 1..Len(result.blocks) : HasCaption(result.blocks[k])}

\* C12: the blocks with a caption give as many entries and as many cards,
\* the cards are numbered 1..N in the order of the input, and the subtitleId
\* of a card is the rawId of its entry.
C12_OneCardPerCaption ==
  Parsed =>
    /\ Len(result.subtitles) = Cardinality(CaptionBlocks)
    /\ Len(result.cards) = Cardinality(CaptionBlocks)
    /\ \A i \in 1..Len(result.cards) :
         /\ result.cards[i].id = Num(i)
         /\ i <= Len(result.subtitles)
         /\ result.cards[i].subtitleId = Num(result.subtitles[i].rawId)

\* The entries made by the blocks before block k, and with block k.
EntriesBefore(k) == parseBlocks(<<>>, SubSeq(result.blocks, 1, k - 1), 1)
EntriesWith(k) == parseBlock(EntriesBefore(k), result.blocks[k], k)
Produced(k) == Len(EntriesWith(k)) > Len(EntriesBefore(k))
EntryOf(k) == EntriesWith(k)[Len(EntriesWith(k))]

\* C13: the index line is optional.  A first non-blank line that is an
\* integer is the rawId of the block.  Any other first line leaves the rawId
\* to the count of the entries so far plus one and is read as the time range,
\* whose two timecodes the entry then has, or as the first line of the text.
C13_IndexLineOptional ==
  Parsed =>
    /\ result.subtitles = parseBlocks(<<>>, result.blocks, 1)
    /\ \A k \in 1..Len(result.blocks) :
         LET first == FirstLine(result.blocks[k])
             parts == SplitOnArrow(first)
         IN /\ (IsInteger(first) /\ Produced(k)) =>
                 Num(EntryOf(k).rawId) = ParseInt(first)
            /\ (first # <<>> /\ ~IsInteger(first) /\ Includes(first, Arrow) /\ Produced(k)) =>
                 /\ EntryOf(k).rawId = Len(EntriesBefore(k)) + 1
                 /\ EntryOf(k).start = Str(Trim(parts[1]))
                 /\ EntryOf(k).end = Str(Trim(parts[2]))
            /\ (first # <<>> /\ ~IsInteger(first) /\ ~Includes(first, Arrow)) =>
                 /\ Produced(k)
                 /\ EntryOf(k).rawId = Len(EntriesBefore(k)) + 1
                 /\ StartsAt(EntryOf(k).text, 1, Trim(Remove(first, "\r")))

Blank(lines) == \A k \in 1..Len(lines) : Trim(lines[k]) = <<>>

\* A block without text: blank, an index alone, or an index and a time range
\* alone.
NoText(block) ==
  \/ FirstLine(block) = <<>>
  \/ /\ IsInteger(FirstLine(block))
     /\ \/ Blank(AfterFirstLine(block))
        \/ /\ Includes(AfterFirstLine(block)[1], Arrow)
           /\ Blank(Tail(AfterFirstLine(block)))

\* C14: the text of an entry is not empty and has no white space at either
\* end.  A block without text gives no entry and does not count: the index
\* of an entry, and the rawId of an entry whose block declares none, is the
\* number of the entries before it plus one.
C14_NoEmptyText ==
  Parsed =>
    /\ result.subtitles = parseBlocks(<<>>, result.blocks, 1)
    /\ \A i \in 1..Len(result.subtitles) :
         LET text == result.subtitles[i].text
         IN /\ text # <<>>
            /\ text[1] \notin Whitespace
            /\ text[Len(text)] \notin Whitespace
            /\ result.subtitles[i].index = i
    /\ \A k \in 1..Len(result.blocks) :
         /\ NoText(result.blocks[k]) => EntriesWith(k) = EntriesBefore(k)
         /\ Produced(k) =>
              /\ Len(EntriesBefore(k)) = Cardinality({j \in 1..(k - 1) : Produced(j)})
              /\ SubSeq(EntriesWith(k), 1, Len(EntriesBefore(k))) = EntriesBefore(k)
              /\ ParseInt(FirstLine(result.blocks[k])) = NaN =>
                   EntryOf(k).rawId = Cardinality({j \in 1..(k - 1) : Produced(j)}) + 1

\* An index alone, then a block of text without index: the text is entry 1
\* with rawId 1.
C14_Witness ==
  /\ pc = "parsed"
  /\ Len(result.blocks) = 2
  /\ IsInteger(FirstLine(result.blocks[1]))
  /\ NoText(result.blocks[1])
  /\ ~Produced(1)
  /\ Produced(2)
  /\ ParseInt(FirstLine(result.blocks[2])) = NaN
  /\ Len(result.subtitles) = 1
  /\ result.subtitles[1].rawId = 1
  /\ result.subtitles[1].index = 1

\* The lines of the file that are not empty, by position, and how many of
\* them the blocks 1..k hold.  The parser keeps them all, in order.
NonEmptyLines == Positions(arg, {k \in 1..Len(arg) : arg[k] # <<>>})

HeldThrough(k) ==
  Len(SelectSeq(SplitLines(Join(SubSeq(result.blocks, 1, k), <<"\n">>)),
                LAMBDA line : line # <<>>))

\* The block that holds the p-th line that is not empty.
BlockOf(p) ==
  CHOOSE k \in 1..Len(result.blocks) :
    HeldThrough(k) >= p /\ (k = 1 \/ HeldThrough(k - 1) < p)

\* The number of empty lines between the p-th line that is not empty and the
\* next one.
EmptyBetween(p) == NonEmptyLines[p + 1] - NonEmptyLines[p] - 1

\* C18 as stated: two lines are in different blocks exactly when two or more
\* empty lines lie between them.
C18_Original ==
  Parsed =>
    /\ HeldThrough(Len(result.blocks)) = Len(NonEmptyLines)
    /\ \A p \in 1..(Len(NonEmptyLines) - 1) :
         BlockOf(p) # BlockOf(p + 1) <=> EmptyBetween(p) >= 2

\* C18: a new block starts exactly at a run of two or more line feeds: two
\* lines are in different blocks exactly when one or more empty lines lie
\* between them.  A line of white space is not empty and separates nothing.
C18_BlockAtEmptyLine ==
  Parsed =>
    /\ HeldThrough(Len(result.blocks)) = Len(NonEmptyLines)
    /\ \A p \in 1..(Len(NonEmptyLines) - 1) :
         BlockOf(p) # BlockOf(p + 1) <=> EmptyBetween(p) >= 1

\* One empty line between two lines, which are in two blocks, and a line of
\* white space right after a line, in the same block.
C18_Witness ==
  /\ Parsed
  /\ \E p \in 1..(Len(NonEmptyLines) - 1) :
       EmptyBetween(p) = 1 /\ BlockOf(p + 1) = BlockOf(p) + 1
  /\ \E p \in 1..(Len(NonEmptyLines) - 1) :
       /\ arg[NonEmptyLines[p + 1]] = <<" ">>
       /\ EmptyBetween(p) = 0
       /\ BlockOf(p) = BlockOf(p + 1)

-----------------------------------------------------------------------------
(* C15 *)

\* The string is HH:MM:SS,mmm and nothing else.
IsTimecode(s) ==
  /\ Len(s) = 12
  /\ \A k \in {1, 2, 4, 5, 7, 8, 10, 11, 12} : IsDigit(s[k])
  /\ s[3] = ":" /\ s[6] = ":" /\ s[9] = ","

TwoDigits(s, k) == DigitValue(s[k]) * 10 + DigitValue(s[k + 1])

Milliseconds(s) ==
  TwoDigits(s, 1) * 3600000 + TwoDigits(s, 4) * 60000 + TwoDigits(s, 7) * 1000
  + DigitValue(s[10]) * 100 + TwoDigits(s, 11)

\* C15: timecodeToMs returns H*3600000 + M*60000 + S*1000 + ms for a string
\* of the form HH:MM:SS,mmm and null for null and for every other string,
\* also for a timecode with characters before or after it.
C15_ExactTimecodeOnly ==
  pc = "timecoded" =>
    IF IsStr(arg) /\ IsTimecode(arg.str)
    THEN result = Num(Milliseconds(arg.str))
    ELSE result = NULL

-----------------------------------------------------------------------------
(* C16 *)

Count(s, c) == Len(SelectSeq(s, LAMBDA x : x = c))

Sanitized(s) ==
  /\ Count(s, "\t") = 0
  /\ Count(s, "\n") = 0
  /\ s # <<>> => (s[1] \notin Whitespace /\ s[Len(s)] \notin Whitespace)

\* C16: clean applied to its own result returns it unchanged; the result
\* has no tab, no line feed and no white space at either end; the tabular
\* output has one line per card, with one tab, between the cleaned sentence
\* and the cleaned translation.
C16_CleanIdempotent ==
  pc = "cleaned" =>
    /\ result.twice = result.once
    /\ \A k \in 1..Len(arg) :
         Sanitized(result.once[k].sentence) /\ Sanitized(result.once[k].translation)
    /\ Count(result.tsv, "\t") = Len(arg)
    /\ Count(result.tsv, "\n") = IF Len(arg) = 0 THEN 0 ELSE Len(arg) - 1
    /\ Len(arg) > 0 =>
         SplitLines(result.tsv) =
           [k \in 1..Len(arg) |->
              result.once[k].sentence \o <<"\t">> \o result.once[k].translation]

\* Two cards whose fields hold tabs, line feeds and outer white space.
C16_Witness ==
  /\ pc = "cleaned"
  /\ Len(arg) = 2
  /\ arg[1].sentence = Str(<<" ", "\t", "a">>)
  /\ arg[1].translation = Str(<<"\t", "b", "\r", "\n", "c", " ">>)
  /\ result.once[1] = [sentence |-> <<"a">>, translation |-> <<"b", " ", "c">>]
  /\ Count(result.tsv, "\n") = 1

-----------------------------------------------------------------------------
(* C17 *)

\* C17: the enriched cards are the input cards in their order, each with
\* every field of its input card unchanged except translation and tokens;
\* the input cards stay as they were read; the finished run has one
\* enriched card per input card and writes them as they are.
C17_OnlyTranslationAndTokens ==
  /\ Len(enrichedCards) <= Len(rawCards)
  /\ \A k \in 1..Len(rawCards) : rawCards[k] \in Cards
  /\ \A p \in pending : rawCards[p.index] = p.local.card
  /\ \A k \in 1..Len(enrichedCards) :
       /\ DOMAIN enrichedCards[k] = DOMAIN rawCards[k] \cup {"translation", "tokens"}
       /\ \A f \in DOMAIN rawCards[k] \ {"translation", "tokens"} :
            enrichedCards[k][f] = rawCards[k][f]
  /\ pc = "done" =>
       /\ Len(enrichedCards) = cardCount
       /\ Len(rawCards) = cardCount
       /\ written[1] = [path |-> options.outputJsonPath,
                        content |-> [cards |-> enrichedCards]]

\* A finished run of two cards: the first got another translation and kept
\* its sentence with the leading space.
C17_Witness ==
  /\ pc = "done"
  /\ cardCount = 2
  /\ rawCards[1].sentence = Str(<<" ", "a">>)
  /\ enrichedCards[1].sentence = Str(<<" ", "a">>)
  /\ enrichedCards[1].romaji = Str(<<"r">>)
  /\ enrichedCards[1].translation # rawCards[1].translation
  /\ enrichedCards[1].tokens # <<>>
  /\ enrichedCards[2].id = rawCards[2].id

-----------------------------------------------------------------------------
(* buildLiteralTranslation on its own: every breakdown of up to MaxTokens    *)
(* tokens, with no dictionary entry, an entry without glosses, an entry      *)
(* whose first gloss is empty, and entries with one or two glosses.          *)

MaxTokens == 3

\* The one-character surface U+732B (cat).
NEKO == "U+732B"

Surfaces == {<<NEKO>>, <<"n", "o">>}

MeaningLists ==
  {NULL, [list |-> <<>>], [list |-> << <<>>, <<"x">> >>],
   [list |-> << <<"c", "a", "t">> >>],
   [list |-> << <<"o", "f">>, <<"'", "s">> >>]}

TokenBreakdowns == [surface : Surfaces, meanings : MeaningLists]

InitLiteral ==
  /\ pc = "literal"
  /\ options = parseOptions(NoArgs)
  /\ hintFile = NoHintFile
  /\ dictionary = [k \in {} |-> NULL]
  /\ cardCount = 0
  /\ rawCards = <<>>
  /\ translations = EmptyState(NULL)
  /\ enrichedCards = <<>>
  /\ nextCard = 1
  /\ pending = {}
  /\ resolution = <<>>
  /\ written = <<>>
  /\ \E n \in 0..MaxTokens : arg \in [1..n -> TokenBreakdowns]
  /\ result = NULL

Literal ==
  /\ pc = "literal"
  /\ pc' = "literally"
  /\ result' = Str(buildLiteralTranslation(arg))
  /\ UNCHANGED <<options, hintFile, dictionary, cardCount, rawCards, translations,
                 enrichedCards, nextCard, pending, resolution, written, arg>>

NextLiteral == Literal

SpecLiteral == InitLiteral /\ [][NextLiteral]_vars

-----------------------------------------------------------------------------
(* C19 *)

HasFirstGloss(token) ==
  ~IsNull(token.meanings) /\ Len(token.meanings.list) > 0

\* The pieces the claim asks for, joined with single spaces.
RECURSIVE Spaced(_)
Spaced(parts) ==
  IF parts = <<>> THEN <<>>
  ELSE IF Len(parts) = 1 THEN parts[1]
  ELSE parts[1] \o <<" ">> \o Spaced(Tail(parts))

\* C19 as stated: the result is the first gloss of each token that has one,
\* the surface of each other token, in order, joined with single spaces; it
\* is empty for the empty breakdown and contains the surface of every token
\* without a dictionary entry.
C19_Original ==
  pc = "literally" =>
    /\ result = Str(Spaced([k \in 1..Len(arg) |->
                      IF HasFirstGloss(arg[k]) THEN arg[k].meanings.list[1]
                      ELSE arg[k].surface]))
    /\ arg = <<>> => result = Str(<<>>)
    /\ \A k \in 1..Len(arg) :
         IsNull(arg[k].meanings) => Includes(result.str, arg[k].surface)

\* C19, amended: a token is rendered by its first gloss only when that
\* gloss is a non-empty string, by its surface otherwise (no entry, no
\* gloss, or an empty first gloss); the rest is as stated.
C19_LiteralTranslation ==
  pc = "literally" =>
    /\ result = Str(Spaced([k \in 1..Len(arg) |->
                      IF HasFirstGloss(arg[k]) /\ arg[k].meanings.list[1] # <<>>
                      THEN arg[k].meanings.list[1]
                      ELSE arg[k].surface]))
    /\ arg = <<>> => result = Str(<<>>)
    /\ \A k \in 1..Len(arg) :
         IsNull(arg[k].meanings) => Includes(result.str, arg[k].surface)
    /\ (Len(arg) = 1 /\ arg[1].surface = <<NEKO>> /\ IsNull(arg[1].meanings))
         => result = Str(<<NEKO>>)

\* Three tokens: one with a gloss, one whose first gloss is empty, one
\* without an entry.
C19_Witness ==
  /\ pc = "literally"
  /\ Len(arg) = 3
  /\ arg[1].meanings = [list |-> << <<"o", "f">>, <<"'", "s">> >>]
  /\ arg[2] = [surface |-> <<"n", "o">>, meanings |-> [list |-> << <<>>, <<"x">> >>]]
  /\ arg[3] = [surface |-> <<NEKO>>, meanings |-> NULL]
  /\ result = Str(<<"o", "f", " ", "n", "o", " ", NEKO>>)

-----------------------------------------------------------------------------
(* katakanaToHiragana on its own. A text is its sequence of UTF-16 code      *)
(* units, which is what the pattern and charCodeAt work on.                  *)

\* ァ and ヶ of the pattern, and the 0x60 taken off.
KatakanaFirst == 12449
KatakanaLast == 12534
KanaShift == 96

\* Mutant: the whole katakana block up to U+30FF is shifted.
IsKatakana_wholeBlock(unit) == unit >= KatakanaFirst /\ unit <= 12543

\* [ァ-ヶ]
IsKatakana(unit) == unit >= KatakanaFirst /\ unit <= KatakanaLast

\* String.fromCharCode(char.charCodeAt(0) - 0x60)
Shifted(unit) == (unit - KanaShift) % 65536

\* text.replace(/[ァ-ヶ]/g, ...)
katakanaToHiragana(text) ==
  [k \in 1..Len(text) |-> IF IsKatakana(text[k]) THEN Shifted(text[k]) ELSE text[k]]

MaxKana == 3

\* "a", the hiragana U+3041, U+304B and U+3096, U+30A0 just below the range,
\* its ends U+30A1 and U+30F6, U+30AB inside it, U+30F7 just above, the long
\* vowel mark U+30FC, and U+3101, which lies 0x60 above U+30A1.
KanaUnits == {97, 12353, 12363, 12438, 12448, 12449, 12459, 12534, 12535, 12540, 12545}

InitKana ==
  /\ pc = "kana"
  /\ options = parseOptions(NoArgs)
  /\ hintFile = NoHintFile
  /\ dictionary = [k \in {} |-> NULL]
  /\ cardCount = 0
  /\ rawCards = <<>>
  /\ translations = EmptyState(NULL)
  /\ enrichedCards = <<>>
  /\ nextCard = 1
  /\ pending = {}
  /\ resolution = <<>>
  /\ written = <<>>
  /\ \E n \in 0..MaxKana : arg \in [1..n -> KanaUnits]
  /\ result = NULL

Kana ==
  /\ pc = "kana"
  /\ pc' = "hiragana"
  /\ result' = [once |-> katakanaToHiragana(arg),
                twice |-> katakanaToHiragana(katakanaToHiragana(arg))]
  /\ UNCHANGED <<options, hintFile, dictionary, cardCount, rawCards, translations,
                 enrichedCards, nextCard, pending, resolution, written, arg>>

NextKana == Kana

SpecKana == InitKana /\ [][NextKana]_vars

-----------------------------------------------------------------------------
(* C20 *)

\* C20: katakanaToHiragana replaces each code unit in U+30A1..U+30F6
\* (12449..12534) by the one 0x60 (96) below it and keeps every other one,
\* position by position; applied to its own output it changes nothing.
C20_KatakanaToHiragana ==
  pc = "hiragana" =>
    /\ Len(result.once) = Len(arg)
    /\ \A k \in 1..Len(arg) :
         result.once[k] = IF arg[k] \in 12449..12534 THEN arg[k] - 96 ELSE arg[k]
    /\ result.twice = result.once

\* Both ends of the range are shifted and the code unit just above is kept.
C20_Witness ==
  /\ pc = "hiragana"
  /\ arg = <<12449, 12534, 12535>>
  /\ result.once = <<12353, 12438, 12535>>
  /\ result.twice = <<12353, 12438, 12535>>

-----------------------------------------------------------------------------
(* C21 *)

Indices == {"byId", "bySubtitleId", "bySentence"}

\* The keys under which registerGeneratedTranslation stores for a card, by
\* index.
KeysOf(card) ==
  [byId |-> IF IsNull(card.id) THEN {} ELSE {StringOf(card.id)},
   bySubtitleId |-> IF IsNull(card.subtitleId) THEN {} ELSE {StringOf(card.subtitleId)},
   bySentence |-> {Trim(OrEmpty(card.sentence))} \ {<<>>}]

\* A step of the loop or the writing of the outputs: the run goes on.
RunStep == pc = "loop" /\ pc' \in {"loop", "done"}

\* C21: in every step of a run each key of byId, bySubtitleId and bySentence
\* stays and keeps its translation; the indices change only when the
\* translator returns for a card none of whose keys was in its index, and
\* then by exactly the keys of that card.
C21_IndicesOnlyGrow ==
  [][RunStep =>
       /\ \A idx \in Indices : \A k \in DOMAIN translations[idx] :
            /\ k \in DOMAIN translations'[idx]
            /\ translations'[idx][k] = translations[idx][k]
       /\ (\E idx \in Indices : translations'[idx] # translations[idx]) =>
            \E p \in pending \ pending' : \A idx \in Indices :
              /\ KeysOf(p.local.card)[idx] \cap DOMAIN translations[idx] = {}
              /\ DOMAIN translations'[idx] =
                   DOMAIN translations[idx] \cup KeysOf(p.local.card)[idx]]_vars

\* The finished run of one card with the object hint file: the card met no
\* hint and its generated translation stands beside the loaded ones.
C21_Witness ==
  /\ pc = "done"
  /\ Len(translations.initialEntries) = 2
  /\ Len(translations.addedEntries) = 1
  /\ DOMAIN translations.byId = {<<"1">>, <<"k">>, <<"2">>}
  /\ translations.byId[<<"1">>] = <<"I">>
  /\ translations.byId[<<"2">>] = <<"g">>
  /\ DOMAIN translations.bySubtitleId = {<<"7">>}
  /\ DOMAIN translations.bySentence = {<<"b">>}

-----------------------------------------------------------------------------
(* A run that writes the translation cache, followed by the start of a      *)
(* second run that loads it.                                                 *)

\* { "1": { subtitleId: 7, translation: "A" },
\*   "k": { subtitleId: 7, translation: "S" } }: two hints for one subtitle.
SharedSubtitleFile ==
  [object |-> << <<<<"1">>, [obj |-> [subtitleId |-> Num(7),
                                      translation |-> Str(<<"A">>)]]>>,
                 <<<<"k">>, [obj |-> [subtitleId |-> Num(7),
                                      translation |-> Str(<<"S">>)]]>> >>]

CacheHintFiles == HintFiles \cup {SharedSubtitleFile}

\* --translations hints.json --auto-translate, with or without
\* --auto-translate-keep: the cache goes back to hints.json.
CacheCommandLines ==
  { cli \in CommandLines : ~IsNull(cli.translations) /\ cli.autoTranslate }

\* JSON.parse of JSON.stringify(merged, null, 2): an array of objects with
\* the fields id, subtitleId, sentence and translation.
ReadBack(entries) ==
  [array |-> [j \in 1..Len(entries) |->
                RawEntry(entries[j].id, entries[j].subtitleId, entries[j].sentence,
                         Str(entries[j].translation))]]

\* The files written at the save path, in the order of writing.
CacheFiles ==
  SelectSeq(written, LAMBDA w : /\ ~IsNull(options.translationSavePath)
                                /\ w.path = options.translationSavePath.str)

\* Line 155 of the next run, given the cache of this one as its hints.
SecondRun ==
  /\ pc = "done"
  /\ CacheFiles # <<>>
  /\ pc' = "reloaded"
  /\ result' = loadTranslationHints(options.translationSavePath,
                                    ReadBack(CacheFiles[Len(CacheFiles)].content.entries))
  /\ UNCHANGED <<options, hintFile, dictionary, cardCount, rawCards, translations,
                 enrichedCards, nextCard, pending, resolution, written, arg>>

NextCache ==
  \/ /\ pc = "start"
     /\ \E cli \in CacheCommandLines, file \in CacheHintFiles,
           dict \in Dictionaries, count \in 0..MaxCards :
          Startup(cli, file, dict, count)
  \/ /\ pc = "loop"
     /\ \E card \in Cards : StartCard(card)
  \/ \E p \in pending, response \in ApiResponses : TranslatorReturns(p, response)
  \/ WriteOutputs
  \/ SecondRun

SpecCache == Init /\ [][NextCache]_vars

-----------------------------------------------------------------------------
(* C22 *)

\* C22: the indices loaded from the cache a run has written are the indices
\* the run ended with.
C22_CacheRoundTrips ==
  pc = "reloaded" =>
    /\ result.byId = translations.byId
    /\ result.bySubtitleId = translations.bySubtitleId
    /\ result.bySentence = translations.bySentence

-----------------------------------------------------------------------------
(* Runs with auto-translation over cards whose ids, subtitleIds and          *)
(* sentences repeat, and in which a number is the id of one card and the     *)
(* subtitleId of another.                                                    *)

ReuseCards ==
  [id : {Num(1), Num(7)}, subtitleId : {NULL, Num(7)},
   sentence : {Str(<<" ", "a">>), Str(<<"b">>)},
   translation : {NULL}, romaji : {Str(<<"r">>)}]

ReuseCommandLines == { cli \in CommandLines : cli.autoTranslate }

NextReuse ==
  \/ /\ pc = "start"
     /\ \E cli \in ReuseCommandLines, file \in HintFiles \cup {NoHintFile},
           dict \in Dictionaries, count \in 0..MaxCards :
          Startup(cli, file, dict, count)
  \/ /\ pc = "loop"
     /\ \E card \in ReuseCards : StartCard(card)
  \/ \E p \in pending, response \in ApiResponses : TranslatorReturns(p, response)
  \/ WriteOutputs

SpecReuse == Init /\ [][NextReuse]_vars

-----------------------------------------------------------------------------
(* C23 *)

\* The hints as they were loaded at the start of the run.
Loaded == loadTranslationHints(options.translationPath, hintFile)

\* The k-th card was resolved by a hint that the loaded hints do not give
\* it: a translation registered during the run.
Reuses(k) ==
  /\ resolution[k].source = "hint"
  /\ resolution[k].hint # pickTranslation(CardOf(k), Loaded)

SameSentence(a, b) == Trim(OrEmpty(a.sentence)) = Trim(OrEmpty(b.sentence))

SameKey(a, b) ==
  \/ a.id = b.id
  \/ ~IsNull(a.subtitleId) /\ a.subtitleId = b.subtitleId
  \/ SameSentence(a, b) /\ Trim(OrEmpty(a.sentence)) # <<>>

\* The translation that resolved card k was generated for the earlier card j.
GeneratedFor(j, k) ==
  /\ j < k
  /\ Succeeded(resolution[j])
  /\ resolution[j].generated = resolution[k].hint

-----------------------------------------------------------------------------
(* The legacy enricher scripts/enrichCards.mjs: two indices holding the     *)
(* values of the hint file as they are, and no translator.                   *)

\* The truthiness of a JavaScript value.
JsTruthy(v) == (IsStr(v) /\ v.str # <<>>) \/ (IsNum(v) /\ v.num # 0)

legacy_EmptyState == [byId |-> EmptyMap, bySentence |-> EmptyMap]

\* registerEntry of the legacy loadTranslationHints.
legacy_registerEntry(st, entry) ==
  [st EXCEPT
     !.byId = IF ~IsNull(entry.id) /\ JsTruthy(entry.translation)
              THEN MapSet(@, StringOf(entry.id), entry.translation) ELSE @,
     !.bySentence = IF JsTruthy(entry.sentence) /\ JsTruthy(entry.translation)
                    THEN MapSet(@, Trim(entry.sentence.str), entry.translation) ELSE @]

RECURSIVE legacy_registerAll(_, _)
legacy_registerAll(st, entries) ==
  IF entries = <<>> THEN st
  ELSE legacy_registerAll(legacy_registerEntry(st, Head(entries)), Tail(entries))

\* Object.entries(raw).forEach: a string value goes into byId as it is, an
\* object value is registered as { id: key, ...value }.
RECURSIVE legacy_registerObject(_, _)
legacy_registerObject(st, pairs) ==
  IF pairs = <<>> THEN st
  ELSE LET key == Head(pairs)[1]
           value == Head(pairs)[2]
           next == IF IsStr(value) THEN [st EXCEPT !.byId = MapSet(@, key, value)]
                   ELSE IF IsNull(value) \/ IsNum(value) THEN st
                   ELSE legacy_registerEntry(st,
                          [f \in EntryFields |->
                             IF f \in DOMAIN value.obj THEN value.obj[f]
                             ELSE IF f = "id" THEN Str(key) ELSE NULL])
       IN legacy_registerObject(next, Tail(pairs))

legacy_loadTranslationHints(path, file) ==
  IF IsNull(path) THEN legacy_EmptyState
  ELSE IF "missing" \in DOMAIN file THEN legacy_EmptyState
  ELSE IF "array" \in DOMAIN file THEN legacy_registerAll(legacy_EmptyState, file.array)
  ELSE legacy_registerObject(legacy_EmptyState, file.object)

\* The legacy pickTranslation: the subtitleId is looked up in byId.
legacy_pickTranslation(card, tr) ==
  IF MapHas(tr.byId, StringOf(card.id)) THEN tr.byId[StringOf(card.id)]
  ELSE IF JsTruthy(card.subtitleId) /\ MapHas(tr.byId, StringOf(card.subtitleId))
       THEN tr.byId[StringOf(card.subtitleId)]
  ELSE LET normalizedSentence == Trim(OrEmpty(card.sentence))
       IN IF normalizedSentence # <<>> /\ MapHas(tr.bySentence, normalizedSentence)
          THEN tr.bySentence[normalizedSentence]
          ELSE NULL

\* The legacy enrichCard: pickTranslation ?? the card's translation, as it
\* is, when it is not blank ?? the literal translation.
legacy_enrichCard(card, dict, tr) ==
  LET breakdown == Breakdown(card, dict)
      hint == legacy_pickTranslation(card, tr)
      own == IF JsTruthy(card.translation) /\ Trim(card.translation.str) # <<>>
             THEN card.translation ELSE NULL
      translation == IF ~IsNull(hint) THEN hint
                     ELSE IF ~IsNull(own) THEN own
                     ELSE Str(buildLiteralTranslation(breakdown))
  IN [f \in DOMAIN card \cup {"translation", "tokens"} |->
        IF f = "translation" THEN translation
        ELSE IF f = "tokens" THEN breakdown
        ELSE card[f]]

\* Without --auto-translate, with and without a hint file.
LegacyCommandLines ==
  { cli \in CommandLines : ~cli.autoTranslate /\ ~cli.autoTranslateKeep }

\* The legacy script on the input of the finished run: rawCards.map(enrichCard).
LegacyRun ==
  /\ pc = "done"
  /\ pc' = "compared"
  /\ result' =
       [cards |->
          LET tr == legacy_loadTranslationHints(options.translationPath, hintFile)
          IN [k \in 1..Len(rawCards) |-> legacy_enrichCard(rawCards[k], dictionary, tr)]]
  /\ UNCHANGED <<options, hintFile, dictionary, cardCount, rawCards, translations,
                 enrichedCards, nextCard, pending, resolution, written, arg>>

NextLegacy ==
  \/ /\ pc = "start"
     /\ \E cli \in LegacyCommandLines, file \in HintFiles \cup {NoHintFile},
           dict \in Dictionaries, count \in 0..MaxCards :
          Startup(cli, file, dict, count)
  \/ /\ pc = "loop"
     /\ \E card \in Cards : StartCard(card)
  \/ WriteOutputs
  \/ LegacyRun

SpecLegacy == Init /\ [][NextLegacy]_vars

-----------------------------------------------------------------------------
(* C24 *)

\* C24: without auto-translation the legacy enricher gives every card the
\* translation the TypeScript enricher gives it.
C24_SameTranslation ==
  pc = "compared" =>
    /\ Len(result.cards) = Len(enrichedCards)
    /\ \A k \in 1..Len(enrichedCards) :
         result.cards[k].translation = enrichedCards[k].translation

====
